---- MODULE Spec2Model ----
(***************************************************************************)
(* Model of the MRMSIMU topology-merging pipeline (main.py, scc.py,        *)
(* src/connector_utils.py, src/network_io.py).                             *)
(*                                                                         *)
(* A pandas DataFrame is a sequence of records (one record per row, in row *)
(* order).  pd.DataFrame([]) - the frame built from an empty list of rows  *)
(* - has no columns; it is the empty sequence << >> and any column access  *)
(* on it raises KeyError.                                                  *)
(***************************************************************************)
EXTENDS Integers, Sequences, FiniteSets, TLC

VARIABLES
    csv,                    \* the five input files (tables as stored on disk)
    pc,                     \* position of main(): which step ran last
    err,                    \* "none", or the exception that ended main()
    num_candidates,         \* argument k of find_nearest_scc_nodes
    taz_df, meso_nodes, meso_links, micro_nodes, micro_links,
    node_to_scc,            \* result of compute_scc_id_mapping
    taz_with_candidates,    \* result of find_nearest_scc_nodes
    taz_micro_map,          \* result of map_taz_to_micro_nodes
    shifts,                 \* (node_shift_meso, node_shift_micro, link_shift_meso)
    updated_meso_nodes, updated_micro_nodes, taz_nodes,
    meso_connector_links, micro_connector_links,
    final_links, final_nodes

vars == << csv, pc, err, num_candidates, taz_df, meso_nodes, meso_links,
           micro_nodes, micro_links, node_to_scc, taz_with_candidates,
           taz_micro_map, shifts, updated_meso_nodes, updated_micro_nodes,
           taz_nodes, meso_connector_links, micro_connector_links,
           final_links, final_nodes >>

----------------------------------------------------------------------------
(* Bounds of the model *)

MaxTaz == 2          \* at most this many TAZ rows (ids 1..MaxTaz)
MaxMesoNodes == 3    \* meso node rows
MaxMicroLinks == 2   \* micro link rows in the pipeline inputs
MaxK == 2            \* num_candidates ranges over 1..MaxK
MaxCoord == 1        \* coordinates range over 0..MaxCoord

----------------------------------------------------------------------------
(* Generic table helpers *)

Range(s) == { s[i] : i \in DOMAIN s }

Col(t, c) == [ i \in DOMAIN t |-> t[i][c] ]

SetMax(S) == CHOOSE m \in S : \A x \in S : x <= m

SetMin(S) == CHOOSE m \in S : \A x \in S : m <= x

\* Series.max() of an integer column of a non-empty table
ColMax(t, c) == SetMax(Range(Col(t, c)))

Min2(a, b) == IF a <= b THEN a ELSE b

\* keys are pairs, compared lexicographically
KeyLeq(a, b) == a[1] < b[1] \/ (a[1] = b[1] /\ a[2] <= b[2])

RECURSIVE InsertByKey(_, _, _, _)
\* put row r (key k) behind every row of the sorted table whose key is <= k
InsertByKey(rows, keys, r, k) ==
    IF rows = << >> THEN << r >>
    ELSE IF KeyLeq(keys[Len(keys)], k) THEN Append(rows, r)
    ELSE Append(InsertByKey(SubSeq(rows, 1, Len(rows) - 1),
                            SubSeq(keys, 1, Len(keys) - 1), r, k),
                rows[Len(rows)])

RECURSIVE SortKeys(_)
SortKeys(keys) ==
    IF keys = << >> THEN << >>
    ELSE LET n == Len(keys)
             front == SortKeys(SubSeq(keys, 1, n - 1))
         IN  InsertByKey(front, front, keys[n], keys[n])

RECURSIVE StableSort(_, _)
\* the rows of t in ascending key order, equal keys in their order in t
StableSort(t, keys) ==
    IF t = << >> THEN << >>
    ELSE LET n == Len(t)
         IN  InsertByKey(StableSort(SubSeq(t, 1, n - 1), SubSeq(keys, 1, n - 1)),
                         SortKeys(SubSeq(keys, 1, n - 1)),
                         t[n], keys[n])

RECURSIVE Flatten(_)
\* concatenation of a sequence of sequences
Flatten(ss) ==
    IF ss = << >> THEN << >>
    ELSE Flatten(SubSeq(ss, 1, Len(ss) - 1)) \o ss[Len(ss)]

----------------------------------------------------------------------------
(* scc.py *)

\* nodes of the DiGraph built by G.add_edge over the rows of links_df
GraphNodes(links_df) ==
    { links_df[i].from_node_id : i \in DOMAIN links_df } \cup
    { links_df[i].to_node_id : i \in DOMAIN links_df }

Successors(links_df, S) ==
    { links_df[i].to_node_id :
        i \in { j \in DOMAIN links_df : links_df[j].from_node_id \in S } }

RECURSIVE Reachable(_, _)
\* nodes reached from S along the directed edges (S included)
Reachable(links_df, S) ==
    LET next == S \cup Successors(links_df, S)
    IN  IF next = S THEN S ELSE Reachable(links_df, next)

\* nx.strongly_connected_components(G): the set of components
StronglyConnectedComponents(links_df) ==
    { { m \in Reachable(links_df, {n}) : n \in Reachable(links_df, {m}) } :
        n \in GraphNodes(links_df) }

\* sorted(..., key=len, reverse=True) puts a before b when len(a) >= len(b)
LenOrderedAscending(a, b) == a <= b

LenOrdered(a, b) == a >= b

\* The order in which networkx yields the components is not specified, and
\* sorted() is stable, so equal-size components come out in any order: every
\* listing of the components by non-increasing size is a possible value.
SortedSccs(links_df) ==
    LET comps == StronglyConnectedComponents(links_df)
        m == Cardinality(comps)
    IN  { s \in [1..m -> comps] :
            /\ \A i, j \in 1..m : i # j => s[i] # s[j]
            /\ \A i, j \in 1..m :
                 i < j => LenOrdered(Cardinality(s[i]), Cardinality(s[j])) }

\* {node_id: idx for idx, scc in enumerate(sccs) for node_id in scc}
SccIdMapping(links_df, sccs) ==
    [ n \in GraphNodes(links_df) |->
        (CHOOSE i \in DOMAIN sccs : n \in sccs[i]) - 1 ]

\* the values compute_scc_id_mapping can return
compute_scc_id_mapping(links_df) ==
    { SccIdMapping(links_df, sccs) : sccs \in SortedSccs(links_df) }

\* nodes_df['node_id'].map(node_to_scc).fillna(-1).astype(int)
MapFillna(node_id, mapping) ==
    IF node_id \in DOMAIN mapping THEN mapping[node_id] ELSE -1

annotate_nodes_with_scc(nodes_df, mapping) ==
    [ i \in DOMAIN nodes_df |->
        [ node_id |-> nodes_df[i].node_id,
          x_coord |-> nodes_df[i].x_coord,
          y_coord |-> nodes_df[i].y_coord,
          scc_id  |-> MapFillna(nodes_df[i].node_id, mapping) ] ]

----------------------------------------------------------------------------
(* src/connector_utils.py: candidate search and micro entry nodes *)

\* The code orders by np.sqrt(dx**2 + dy**2); sqrt is strictly increasing on
\* the integers that occur here, so the radicand gives the same order and
\* the same ties.
distance(node, taz) ==
    (node.x_coord - taz.x_coord) * (node.x_coord - taz.x_coord)
    + (node.y_coord - taz.y_coord) * (node.y_coord - taz.y_coord)

\* a bug variant: the first n rows, unsorted
NSmallestUnsorted(t, n, keys) == SubSeq(t, 1, Min2(n, Len(t)))

\* DataFrame.nsmallest(n, col), keep='first': the n rows of smallest key in
\* ascending order, equal keys in row order
NSmallest(t, n, keys) == SubSeq(StableSort(t, keys), 1, Min2(n, Len(t)))

\* The candidate_node_id_1..j columns of a row are the field candidates (a
\* sequence of j node ids); column candidate_node_id_i exists iff i <= j.
find_nearest_scc_nodes(tazs, nodes, k) ==
    LET largest_scc_nodes == SelectSeq(nodes, LAMBDA r : r.scc_id = 0)
    IN  [ i \in DOMAIN tazs |->
            LET keys == [ j \in DOMAIN largest_scc_nodes |->
                            << distance(largest_scc_nodes[j], tazs[i]), 0 >> ]
                nearest == NSmallest(largest_scc_nodes, k, keys)
            IN  [ TAZ_clean  |-> tazs[i].TAZ_clean,
                  x_coord    |-> tazs[i].x_coord,
                  y_coord    |-> tazs[i].y_coord,
                  candidates |-> Col(nearest, "node_id") ] ]

find_start_micro_nodes(meso_node_id, mlinks, ulinks) ==
    LET meso_link_ids == { mlinks[i].link_id :
                             i \in { j \in DOMAIN mlinks :
                                       mlinks[j].from_node_id = meso_node_id } }
        micro_subset == { i \in DOMAIN ulinks :
                            ulinks[i].meso_link_id \in meso_link_ids }
        from_nodes == { ulinks[i].from_node_id : i \in micro_subset }
        to_nodes == { ulinks[i].to_node_id : i \in micro_subset }
    IN  from_nodes \ to_nodes

\* row[candidate_col] raises KeyError when the column does not exist
HasCandidateCol(taz_candidates) ==
    \A i \in DOMAIN taz_candidates : Len(taz_candidates[i].candidates) >= 1

map_taz_to_micro_nodes(taz_candidates, mlinks, ulinks, unodes) ==
    Flatten([ i \in DOMAIN taz_candidates |->
        LET start_nodes == find_start_micro_nodes(
                               taz_candidates[i].candidates[1], mlinks, ulinks)
            coords == SelectSeq(unodes, LAMBDA r : r.node_id \in start_nodes)
        IN  [ j \in DOMAIN coords |->
                [ taz_id        |-> taz_candidates[i].TAZ_clean,
                  micro_node_id |-> coords[j].node_id,
                  x_coord       |-> coords[j].x_coord,
                  y_coord       |-> coords[j].y_coord ] ] ])

----------------------------------------------------------------------------
(* src/connector_utils.py: id shifts and connectors *)

compute_shifts(tazs, nodes) ==
    LET max_taz_id == ColMax(tazs, "TAZ_clean")
        node_shift_meso == max_taz_id + 1
    IN  [ node_shift_meso  |-> node_shift_meso,
          node_shift_micro |-> node_shift_meso + ColMax(nodes, "node_id"),
          link_shift_meso  |-> Len(tazs) * 2 + 1 ]

\* reindex_nodes, first result: a shifted copy of the meso nodes
reindex_meso_nodes(nodes, sh) ==
    [ i \in DOMAIN nodes |->
        [ node_id |-> nodes[i].node_id + sh.node_shift_meso,
          x_coord |-> nodes[i].x_coord,
          y_coord |-> nodes[i].y_coord,
          scc_id  |-> nodes[i].scc_id,
          zone_id |-> "" ] ]

\* reindex_nodes, second result: a shifted copy of the micro nodes
reindex_micro_nodes(nodes, sh) ==
    [ i \in DOMAIN nodes |->
        [ node_id      |-> nodes[i].node_id + sh.node_shift_micro,
          x_coord      |-> nodes[i].x_coord,
          y_coord      |-> nodes[i].y_coord,
          meso_link_id |-> nodes[i].meso_link_id + sh.link_shift_meso,
          zone_id      |-> "" ] ]

create_taz_nodes(tazs) ==
    [ i \in DOMAIN tazs |->
        [ node_id |-> tazs[i].TAZ_clean,
          x       |-> tazs[i].x_coord,
          y       |-> tazs[i].y_coord,
          zone_id |-> tazs[i].TAZ_clean,
          layer   |-> "taz" ] ]

ConnectorRow(link_id, from_id, to_id, layer, geom) ==
    [ link_id        |-> link_id,
      from_node_id   |-> from_id,
      to_node_id     |-> to_id,
      length         |-> 100,
      link_type_name |-> "connector",
      link_type      |-> 0,
      layer          |-> layer,
      geometry       |-> geom ]

\* a bug variant: the second row repeats the direction of the first
ConnectorPairSameDirection(link_id, taz_id, node_id, taz_xy, node_xy, layer) ==
    << ConnectorRow(link_id, taz_id, node_id, layer, << taz_xy, node_xy >>),
       ConnectorRow(link_id + 1, taz_id, node_id, layer, << taz_xy, node_xy >>) >>

\* the inner loop over [(taz, node, geom), (node, taz, reversed geom)]:
\* two rows, ids link_id and link_id + 1
ConnectorPair(link_id, taz_id, node_id, taz_xy, node_xy, layer) ==
    << ConnectorRow(link_id, taz_id, node_id, layer, << taz_xy, node_xy >>),
       ConnectorRow(link_id + 1, node_id, taz_id, layer, << node_xy, taz_xy >>) >>

\* .iloc[0] of the rows of t whose column c equals v
FirstWhere(t, c, v) ==
    t[SetMin({ i \in DOMAIN t : t[i][c] = v })]

\* taz_candidates: the TAZ table with its candidate column; nodes: the
\* shifted meso nodes.  link_id starts at 1 and grows by 2 per TAZ row.
generate_meso_connectors(taz_candidates, nodes, node_shift_meso) ==
    Flatten([ i \in DOMAIN taz_candidates |->
        LET row == taz_candidates[i]
            meso_node_id == row.candidates[1] + node_shift_meso
            m == FirstWhere(nodes, "node_id", meso_node_id)
        IN  ConnectorPair(2 * i - 1, row.TAZ_clean, meso_node_id,
                          << row.x_coord, row.y_coord >>,
                          << m.x_coord, m.y_coord >>, "meso") ])

\* a bug variant: no node is ever taken as claimed
NeverUsed(micro_node_id, used_nodes) == FALSE

\* if micro_node_id in used_nodes: continue
AlreadyUsed(micro_node_id, used_nodes) == micro_node_id \in used_nodes

RECURSIVE MicroConnectorLoop(_, _, _, _)
\* the loop of generate_micro_connectors after its first n rows:
\* the connectors so far, used_nodes and the next link_id
MicroConnectorLoop(tazs, tmap, node_shift_micro, n) ==
    IF n = 0
    THEN [ connectors |-> << >>, used_nodes |-> {}, link_id |-> 1 ]
    ELSE LET st == MicroConnectorLoop(tazs, tmap, node_shift_micro, n - 1)
             row == tmap[n]
             micro_node_id == row.micro_node_id + node_shift_micro
             taz_row == FirstWhere(tazs, "TAZ_clean", row.taz_id)
         IN  IF AlreadyUsed(micro_node_id, st.used_nodes)
             THEN st
             ELSE [ connectors |->
                      st.connectors \o
                      ConnectorPair(st.link_id, row.taz_id, micro_node_id,
                                    << taz_row.x_coord, taz_row.y_coord >>,
                                    << row.x_coord, row.y_coord >>, "micro"),
                    used_nodes |-> st.used_nodes \cup { micro_node_id },
                    link_id |-> st.link_id + 2 ]

generate_micro_connectors(tazs, tmap, node_shift_micro) ==
    MicroConnectorLoop(tazs, tmap, node_shift_micro, Len(tmap)).connectors

----------------------------------------------------------------------------
(* src/connector_utils.py: merge_network_layers *)

NaN == "NaN"

\* df[c] = v : the column is added, or overwritten, in place
SetCol(t, c, v) == [ i \in DOMAIN t |-> (c :> v) @@ t[i] ]

\* df[c] += d
AddToCol(t, c, d) == [ i \in DOMAIN t |-> [ t[i] EXCEPT ![c] = @ + d ] ]

\* a column a concatenated frame lacks for a row reads NaN
Cell(r, c) == IF c \in DOMAIN r THEN r[c] ELSE NaN

\* lines 256-268: layer tags and the node/link shifts written into meso_links
MergedMesoLinks(mlinks, sh) ==
    AddToCol(AddToCol(AddToCol(SetCol(mlinks, "layer", "meso"),
                               "from_node_id", sh.node_shift_meso),
                      "to_node_id", sh.node_shift_meso),
             "link_id", sh.link_shift_meso)

\* a bug variant: the micro link endpoints are left unshifted
ShiftedMicroLinksEndpointsKept(ulinks, sh) ==
    AddToCol(SetCol(ulinks, "layer", "micro"), "meso_link_id", sh.link_shift_meso)

\* lines 259-268: the same for micro_links, link_id not yet renumbered
ShiftedMicroLinks(ulinks, sh) ==
    AddToCol(AddToCol(AddToCol(SetCol(ulinks, "layer", "micro"),
                               "from_node_id", sh.node_shift_micro),
                      "to_node_id", sh.node_shift_micro),
             "meso_link_id", sh.link_shift_meso)

\* a bug variant: the micro connectors start one id too low
LinkShiftConnectorMicroOffByOne(merged_meso_links) ==
    ColMax(merged_meso_links, "link_id") - 1

\* line 270
LinkShiftConnectorMicro(merged_meso_links) ==
    ColMax(merged_meso_links, "link_id")

\* line 271
MergedMicroConnectors(uconn, merged_meso_links) ==
    AddToCol(uconn, "link_id", LinkShiftConnectorMicro(merged_meso_links))

\* lines 272-273
MergedMicroLinks(shifted_micro_links, merged_micro_connectors) ==
    AddToCol(shifted_micro_links, "link_id",
             ColMax(merged_micro_connectors, "link_id") + 1)

\* lines 275-276
FinalNodes(tnodes, mnodes, unodes) ==
    LET all == tnodes \o mnodes \o unodes
        proj == [ i \in DOMAIN all |->
                    [ node_id |-> all[i].node_id,
                      x       |-> Cell(all[i], "x"),
                      y       |-> Cell(all[i], "y"),
                      zone_id |-> all[i].zone_id,
                      layer   |-> all[i].layer ] ]
    \* sort_values('node_id') does not say where rows of equal node_id go;
    \* they are kept in concatenation order here, and no property reads it
    IN  StableSort(proj, [ i \in DOMAIN proj |-> << proj[i].node_id, 0 >> ])

\* lines 278-287
FinalLinks(mconn, mlinks, uconn, ulinks) ==
    LET all == mconn \o mlinks \o uconn \o ulinks
        proj == [ i \in DOMAIN all |->
                    [ link_id        |-> all[i].link_id,
                      from_node_id   |-> all[i].from_node_id,
                      to_node_id     |-> all[i].to_node_id,
                      link_type      |-> Cell(all[i], "link_type"),
                      layer          |-> all[i].layer,
                      link_type_name |-> Cell(all[i], "link_type_name") ] ]
    IN  StableSort(proj, [ i \in DOMAIN proj |->
                             << proj[i].from_node_id, proj[i].to_node_id >> ])

----------------------------------------------------------------------------
(* main.py: the steps of main() *)

\* Step 1: load_node_link_layers and pd.read_csv(taz_path).  Every modelled
\* file has its required columns, so _validate_columns never raises.
Load ==
    /\ pc = "start"
    /\ taz_df' = csv.taz
    /\ meso_nodes' = csv.meso_nodes
    /\ meso_links' = csv.meso_links
    /\ micro_nodes' = csv.micro_nodes
    /\ micro_links' = csv.micro_links
    /\ pc' = "loaded"
    /\ UNCHANGED << csv, err, num_candidates, node_to_scc, taz_with_candidates,
                    taz_micro_map, shifts, updated_meso_nodes,
                    updated_micro_nodes, taz_nodes, meso_connector_links,
                    micro_connector_links, final_links, final_nodes >>

\* Step 2: assign_and_export_scc; meso_nodes is rebound to the annotated copy
AssignScc ==
    /\ pc = "loaded"
    /\ \E m \in compute_scc_id_mapping(meso_links) :
         /\ node_to_scc' = m
         /\ meso_nodes' = annotate_nodes_with_scc(meso_nodes, m)
    /\ pc' = "scc"
    /\ UNCHANGED << csv, err, num_candidates, taz_df, meso_links, micro_nodes,
                    micro_links, taz_with_candidates, taz_micro_map, shifts,
                    updated_meso_nodes, updated_micro_nodes, taz_nodes,
                    meso_connector_links, micro_connector_links, final_links,
                    final_nodes >>

\* Step 3: find_nearest_scc_nodes
FindNearest ==
    /\ pc = "scc"
    /\ taz_with_candidates' =
         find_nearest_scc_nodes(taz_df, meso_nodes, num_candidates)
    /\ pc' = "cand"
    /\ UNCHANGED << csv, err, num_candidates, taz_df, meso_nodes, meso_links,
                    micro_nodes, micro_links, node_to_scc, taz_micro_map,
                    shifts, updated_meso_nodes, updated_micro_nodes, taz_nodes,
                    meso_connector_links, micro_connector_links, final_links,
                    final_nodes >>

\* Step 4: map_taz_to_micro_nodes; row['candidate_node_id_1'] raises KeyError
\* on the first TAZ row when find_nearest_scc_nodes added no such column
MapTaz ==
    /\ pc = "cand"
    /\ IF HasCandidateCol(taz_with_candidates)
       THEN /\ taz_micro_map' = map_taz_to_micro_nodes(
                   taz_with_candidates, meso_links, micro_links, micro_nodes)
            /\ pc' = "mapped"
            /\ err' = err
       ELSE /\ taz_micro_map' = taz_micro_map
            /\ pc' = "failed"
            /\ err' = "KeyError: candidate_node_id_1"
    /\ UNCHANGED << csv, num_candidates, taz_df, meso_nodes, meso_links,
                    micro_nodes, micro_links, node_to_scc, taz_with_candidates,
                    shifts, updated_meso_nodes, updated_micro_nodes, taz_nodes,
                    meso_connector_links, micro_connector_links, final_links,
                    final_nodes >>

\* Step 5: prepare_and_generate_connectors(taz_with_candidates, meso_nodes,
\* micro_nodes, taz_micro_map)
Prepare ==
    /\ pc = "mapped"
    /\ LET sh == compute_shifts(taz_with_candidates, meso_nodes)
           um == reindex_meso_nodes(meso_nodes, sh)
       IN  /\ shifts' = sh
           /\ updated_meso_nodes' = um
           /\ updated_micro_nodes' = reindex_micro_nodes(micro_nodes, sh)
           /\ taz_nodes' = create_taz_nodes(taz_with_candidates)
           /\ meso_connector_links' =
                generate_meso_connectors(taz_with_candidates, um,
                                         sh.node_shift_meso)
           /\ micro_connector_links' =
                generate_micro_connectors(taz_with_candidates, taz_micro_map,
                                          sh.node_shift_micro)
    /\ pc' = "prepared"
    /\ UNCHANGED << csv, err, num_candidates, taz_df, meso_nodes, meso_links,
                    micro_nodes, micro_links, node_to_scc, taz_with_candidates,
                    taz_micro_map, final_links, final_nodes >>

\* Step 6: merge_network_layers.  All the += and df['layer'] = ... writes go
\* into the caller's tables.  micro_connector_links['link_id'] raises KeyError
\* when generate_micro_connectors returned pd.DataFrame([]); the writes of
\* lines 256-270 have happened by then.
Merge ==
    /\ pc = "prepared"
    /\ LET ml == MergedMesoLinks(meso_links, shifts)
           ul == ShiftedMicroLinks(micro_links, shifts)
       IN  /\ updated_meso_nodes' = SetCol(updated_meso_nodes, "layer", "meso")
           /\ updated_micro_nodes' = SetCol(updated_micro_nodes, "layer", "micro")
           /\ taz_nodes' = SetCol(taz_nodes, "layer", "taz")
           /\ meso_links' = ml
           /\ IF micro_connector_links = << >>
              THEN /\ micro_links' = ul
                   /\ pc' = "failed"
                   /\ err' = "KeyError: link_id"
                   /\ UNCHANGED << micro_connector_links, final_links,
                                   final_nodes >>
              ELSE LET uc == MergedMicroConnectors(micro_connector_links, ml)
                       ul2 == MergedMicroLinks(ul, uc)
                   IN  /\ micro_connector_links' = uc
                       /\ micro_links' = ul2
                       /\ final_nodes' = FinalNodes(taz_nodes',
                                                    updated_meso_nodes',
                                                    updated_micro_nodes')
                       /\ final_links' = FinalLinks(meso_connector_links, ml,
                                                    uc, ul2)
                       /\ pc' = "merged"
                       /\ err' = err
    /\ UNCHANGED << csv, num_candidates, taz_df, meso_nodes, micro_nodes,
                    node_to_scc, taz_with_candidates, taz_micro_map, shifts,
                    meso_connector_links >>

----------------------------------------------------------------------------
(* Input files *)

Coords == 0..MaxCoord

\* node and link ids in an input file start at 0 or at 1
IdBases == { 0, 1 }

\* the integers of S, a set of positive integers, in ascending order
SetToSeq(S) ==
    IF S = {} THEN << >>
    ELSE SelectSeq([ i \in 1..SetMax(S) |-> i ], LAMBDA i : i \in S)

\* the rows of table cand picked by the index set T, in table order
Pick(cand, T) ==
    LET idx == SetToSeq(T) IN [ i \in DOMAIN idx |-> cand[idx[i]] ]

\* the runs of at most n consecutive rows of table t, the empty run included
Segments(t, n) ==
    { SubSeq(t, a, b) : a \in 1..(Len(t) + 1), b \in 0..Len(t) } \cap
    UNION { [ 1..k -> Range(t) ] : k \in 0..n }

\* n TAZ rows with ids 1..n, ascending or descending; all at the origin, or
\* spread along the x axis
TazTable(n, descending, spread) ==
    [ i \in 1..n |->
        [ TAZ_clean |-> IF descending THEN n + 1 - i ELSE i,
          x_coord   |-> IF spread THEN (i - 1) % (MaxCoord + 1) ELSE 0,
          y_coord   |-> 0 ] ]

TazTables ==
    { TazTable(n, d, s) : n \in 1..MaxTaz, d \in BOOLEAN, s \in BOOLEAN }

\* MaxMesoNodes meso nodes with ids base.., laid out row by row on the grid
GridMesoNodes(base) ==
    [ j \in 1..MaxMesoNodes |->
        [ node_id |-> base + j - 1,
          x_coord |-> (j - 1) % (MaxCoord + 1),
          y_coord |-> (j - 1) \div (MaxCoord + 1) ] ]

\* a link table from a sequence of (from, to) pairs, link ids base..
LinkTable(pairs, base) ==
    [ i \in DOMAIN pairs |->
        [ link_id      |-> base + i - 1,
          from_node_id |-> pairs[i][1],
          to_node_id   |-> pairs[i][2] ] ]

\* the edges between neighbouring meso nodes, both directions
NeighbourEdges(base) ==
    [ e \in 1..(2 * (MaxMesoNodes - 1)) |->
        LET j == base + (e - 1) \div 2
        IN  IF e % 2 = 1 THEN << j, j + 1 >> ELSE << j + 1, j >> ]

MaxMesoLinks == 2

\* meso link tables: up to MaxMesoLinks consecutive neighbour edges
PipelineMesoLinks(base) ==
    { LinkTable(pairs, base) : pairs \in Segments(NeighbourEdges(base), MaxMesoLinks) }

\* MaxMicroLinks + 1 micro nodes with ids base.., along the x axis
ChainMicroNodes(base) ==
    [ j \in 1..(MaxMicroLinks + 1) |->
        [ node_id      |-> base + j - 1,
          x_coord      |-> (j - 1) % (MaxCoord + 1),
          y_coord      |-> 0,
          meso_link_id |-> base,
          lane_no      |-> 1 ] ]

\* candidate micro links m0 -> m1, m2 -> m1, m1 -> m2, m2 -> m3, ...
MicroEdges(base) ==
    [ e \in 1..(MaxMicroLinks + 1) |->
        IF e = 1 THEN << base, base + 1 >>
        ELSE IF e = 2 THEN << base + 2, base + 1 >>
        ELSE << base + e - 2, base + e - 1 >> ]

\* micro link rows, link ids base.., all subdividing meso link meso_link_id
MicroLinkTable(pairs, base, meso_link_id) ==
    [ i \in DOMAIN pairs |->
        [ link_id      |-> base + i - 1,
          from_node_id |-> pairs[i][1],
          to_node_id   |-> pairs[i][2],
          meso_link_id |-> meso_link_id,
          lane_no      |-> 1 ] ]

\* micro link tables: up to MaxMicroLinks consecutive candidate links that
\* subdivide the first or the second meso link id
PipelineMicroLinks(base) ==
    { MicroLinkTable(pairs, base, m) :
        pairs \in Segments(MicroEdges(base), MaxMicroLinks),
        m \in { base, base + 1 } }

Inputs(t, mn, ml, un, ul) ==
    [ taz |-> t, meso_nodes |-> mn, meso_links |-> ml,
      micro_nodes |-> un, micro_links |-> ul ]

\* before main() has run: nothing is loaded, nothing is computed
NothingLoaded ==
    /\ pc = "start"
    /\ err = "none"
    /\ taz_df = << >>
    /\ meso_nodes = << >>
    /\ meso_links = << >>
    /\ micro_nodes = << >>
    /\ micro_links = << >>
    /\ node_to_scc = << >>
    /\ taz_with_candidates = << >>
    /\ taz_micro_map = << >>
    /\ shifts = << >>
    /\ updated_meso_nodes = << >>
    /\ updated_micro_nodes = << >>
    /\ taz_nodes = << >>
    /\ meso_connector_links = << >>
    /\ micro_connector_links = << >>
    /\ final_links = << >>
    /\ final_nodes = << >>

\* main() calls find_nearest_scc_nodes(..., num_candidates=1)
Init ==
    /\ \E b \in IdBases : \E t \in TazTables :
         \E ml \in PipelineMesoLinks(b) : \E ul \in PipelineMicroLinks(b) :
            csv = Inputs(t, GridMesoNodes(b), ml, ChainMicroNodes(b), ul)
    /\ num_candidates = 1
    /\ NothingLoaded

Next == Load \/ AssignScc \/ FindNearest \/ MapTaz \/ Prepare \/ Merge

Spec == Init /\ [][Next]_vars

----------------------------------------------------------------------------
(* Inputs for the SCC classifier alone: every set of directed edges, self  *)
(* loops included, over MaxSccNodes meso nodes                             *)

MaxSccNodes == 3

\* one node more than the links can touch: the last node is in no link
SccMesoNodes ==
    [ j \in 1..(MaxSccNodes + 1) |->
        [ node_id |-> j - 1, x_coord |-> 0, y_coord |-> 0 ] ]

AllPairs ==
    [ e \in 1..(MaxSccNodes * MaxSccNodes) |->
        << (e - 1) \div MaxSccNodes, (e - 1) % MaxSccNodes >> ]

InitScc ==
    /\ \E T \in SUBSET DOMAIN AllPairs :
         csv = Inputs(TazTable(1, FALSE, FALSE), SccMesoNodes,
                      LinkTable(Pick(AllPairs, T), 0), << >>, << >>)
    /\ num_candidates = 1
    /\ NothingLoaded

NextScc == Load \/ AssignScc

SpecScc == InitScc /\ [][NextScc]_vars

----------------------------------------------------------------------------
(* Inputs for the nearest-access finder: one TAZ anywhere on the grid, the *)
(* meso nodes at either end of the x axis, a core that is a directed cycle *)
(* through any subset of the nodes, with or without a link leaving it      *)

NearMesoNodes(descending, xs) ==
    [ j \in 1..MaxMesoNodes |->
        [ node_id |-> IF descending THEN MaxMesoNodes - j ELSE j - 1,
          x_coord |-> xs[j],
          y_coord |-> 0 ] ]

CyclePairs(nodes, C, spur) ==
    LET rows == SetToSeq(C)
        n == Len(rows)
        cycle == [ i \in 1..n |->
                     << nodes[rows[i]].node_id,
                        nodes[rows[(i % n) + 1]].node_id >> ]
        rest == DOMAIN nodes \ C
    IN  IF spur /\ C # {} /\ rest # {}
        THEN Append(cycle, << nodes[rows[1]].node_id,
                              nodes[SetMin(rest)].node_id >>)
        ELSE cycle

InitNear ==
    /\ \E tx \in Coords, ty \in Coords, d \in BOOLEAN,
          xs \in [ 1..MaxMesoNodes -> { 0, MaxCoord } ],
          C \in SUBSET (1..MaxMesoNodes), spur \in BOOLEAN :
         csv = Inputs(<< [ TAZ_clean |-> 1, x_coord |-> tx, y_coord |-> ty ] >>,
                      NearMesoNodes(d, xs),
                      LinkTable(CyclePairs(NearMesoNodes(d, xs), C, spur), 0),
                      << >>, << >>)
    /\ num_candidates \in 1..MaxK
    /\ NothingLoaded

NextNear == Load \/ AssignScc \/ FindNearest

SpecNear == InitNear /\ [][NextNear]_vars

----------------------------------------------------------------------------
(* Properties *)

NoDuplicates(s) == \A i, j \in DOMAIN s : i # j => s[i] # s[j]

Ids(t) == Range(Col(t, "node_id"))

\* the four blocks of the final link table
FinalBlock(layer, connector) ==
    { final_links[i].link_id :
        i \in { j \in DOMAIN final_links :
                  /\ final_links[j].layer = layer
                  /\ (final_links[j].link_type_name = "connector") = connector } }

\* C1: after compute_shifts and reindex_nodes the TAZ, meso and micro node
\* ids are pairwise disjoint, so no node_id occurs twice in the final node
\* table returned by merge_network_layers.
C1_FinalNodeIdsUnique ==
    pc = "merged" => NoDuplicates(Col(final_nodes, "node_id"))

\* C2: whenever merge_network_layers has been called, the micro-connector
\* table being empty or not, it has returned a final link table in which
\* every link_id is distinct from every other.
C2_FinalLinkIdsUnique ==
    /\ err # "KeyError: link_id"
    /\ pc = "merged" => NoDuplicates(Col(final_links, "link_id"))

\* C3: after a full pipeline run every from_node_id and every to_node_id of
\* the final link table is the node_id of a row of the final node table.
C3_LinkEndpointsResolve ==
    pc = "merged" =>
        \A i \in DOMAIN final_links :
            /\ final_links[i].from_node_id \in Ids(final_nodes)
            /\ final_links[i].to_node_id \in Ids(final_nodes)

\* a merged run whose final link table has rows of all four kinds
C3_Witness ==
    /\ pc = "merged"
    /\ FinalBlock("meso", TRUE) # {}
    /\ FinalBlock("meso", FALSE) # {}
    /\ FinalBlock("micro", TRUE) # {}
    /\ FinalBlock("micro", FALSE) # {}

\* C4 as stated: the final link ids form four consecutive blocks in the
\* order meso links, meso connectors, micro connectors, micro links, each
\* block's smallest id being the previous block's largest id plus one.
C4_BlocksMesoLinksFirst ==
    pc = "merged" =>
        /\ SetMin(FinalBlock("meso", TRUE)) = SetMax(FinalBlock("meso", FALSE)) + 1
        /\ SetMin(FinalBlock("micro", TRUE)) = SetMax(FinalBlock("meso", TRUE)) + 1
        /\ SetMin(FinalBlock("micro", FALSE)) = SetMax(FinalBlock("micro", TRUE)) + 1

\* C4 amended: the meso connectors keep their local ids 1..2n (n TAZs), each
\* meso link id is its input id + 2n + 1, the micro connector ids are the
\* consecutive ids that start at the largest meso link id + 1, and each
\* micro link id is its input id + the largest micro connector id + 1; with
\* input ids >= 0 the blocks lie in the order meso connectors < meso links <
\* micro connectors < micro links.
C4_BlocksConnectorsFirst ==
    pc = "merged" =>
        LET n == Len(csv.taz)
            mesoC == FinalBlock("meso", TRUE)
            mesoL == FinalBlock("meso", FALSE)
            microC == FinalBlock("micro", TRUE)
            microL == FinalBlock("micro", FALSE)
        IN  /\ mesoC = 1..(2 * n)
            /\ mesoL = { csv.meso_links[i].link_id + 2 * n + 1 :
                           i \in DOMAIN csv.meso_links }
            /\ microC = (SetMax(mesoL) + 1)..(SetMax(mesoL) + Cardinality(microC))
            /\ microL = { csv.micro_links[i].link_id + SetMax(microC) + 1 :
                            i \in DOMAIN csv.micro_links }
            /\ SetMax(mesoC) < SetMin(mesoL)
            /\ SetMax(mesoL) < SetMin(microC)
            /\ SetMax(microC) < SetMin(microL)

\* a merged run in which the meso link ids do not start right after the
\* connector ids and the micro link ids do not start right after theirs
C4_Witness ==
    /\ pc = "merged"
    /\ SetMin(FinalBlock("meso", FALSE)) > SetMax(FinalBlock("meso", TRUE)) + 1
    /\ SetMin(FinalBlock("micro", FALSE)) > SetMax(FinalBlock("micro", TRUE)) + 1
    /\ Cardinality(FinalBlock("micro", TRUE)) >= 4

\* the directed edges of the loaded meso link table, as pairs
EdgePairs ==
    { << meso_links[i].from_node_id, meso_links[i].to_node_id >> :
        i \in DOMAIN meso_links }

RECURSIVE Closure(_)
\* transitive closure of a set of pairs
Closure(R) ==
    LET step == R \cup { << pq[1][1], pq[2][2] >> :
                           pq \in { x \in R \X R : x[1][2] = x[2][1] } }
    IN  IF step = R THEN R ELSE Closure(step)

\* a and b are the same node, or each reaches the other along directed
\* links; reach is the transitive closure of the links
MutuallyReachable(reach, a, b) ==
    \/ a = b
    \/ << a, b >> \in reach /\ << b, a >> \in reach

SccSize(id) == Cardinality({ n \in DOMAIN node_to_scc : node_to_scc[n] = id })

\* C5: the mapping of compute_scc_id_mapping has as domain exactly the nodes
\* that are an endpoint of some link; two nodes share an scc_id iff each
\* reaches the other; the ids are 0..m-1 with component sizes non-increasing
\* in the id, so id 0 is a largest component; annotate_nodes_with_scc gives
\* the mapped id to a mapped node and -1 to every other node.
C5_SccMapping ==
    pc = "scc" =>
        LET ends == { p[1] : p \in EdgePairs } \cup { p[2] : p \in EdgePairs }
            used == { node_to_scc[n] : n \in DOMAIN node_to_scc }
            reach == Closure(EdgePairs)
        IN  /\ DOMAIN node_to_scc = ends
            /\ \A a, b \in ends :
                 (node_to_scc[a] = node_to_scc[b]) <=> MutuallyReachable(reach, a, b)
            /\ used = 0..(Cardinality(used) - 1)
            /\ \A i, j \in used : i < j => SccSize(i) >= SccSize(j)
            /\ \A i \in used : SccSize(0) >= SccSize(i)
            /\ \A r \in DOMAIN meso_nodes :
                 meso_nodes[r].scc_id =
                   IF meso_nodes[r].node_id \in ends
                   THEN node_to_scc[meso_nodes[r].node_id] ELSE -1

\* a classified network with a component of two nodes, a smaller component
\* behind it and a node in no link
C5_Witness ==
    /\ pc = "scc"
    /\ 1 \in { node_to_scc[n] : n \in DOMAIN node_to_scc }
    /\ SccSize(0) = 2
    /\ \E r \in DOMAIN meso_nodes : meso_nodes[r].scc_id = -1

\* row index of the meso node with this id
RowOf(node_id) == CHOOSE r \in DOMAIN meso_nodes : meso_nodes[r].node_id = node_id

CoreRows == { r \in DOMAIN meso_nodes : meso_nodes[r].scc_id = 0 }

\* C6: find_nearest_scc_nodes gives each TAZ exactly min(k, |scc_id = 0|)
\* candidates, all of them scc_id = 0 meso nodes, in non-decreasing distance
\* to the TAZ, none farther than an unselected scc_id = 0 node, and equal
\* distances in the row order of the meso node table.
C6_NearestCandidates ==
    pc = "cand" =>
        \A t \in DOMAIN taz_with_candidates :
            LET taz == taz_with_candidates[t]
                c == taz.candidates
                d(r) == distance(meso_nodes[r], taz)
                sel == { RowOf(c[i]) : i \in DOMAIN c }
            IN  /\ Len(c) = Min2(num_candidates, Cardinality(CoreRows))
                /\ NoDuplicates(c)
                /\ sel \subseteq CoreRows
                /\ \A i, j \in DOMAIN c :
                     i < j => /\ d(RowOf(c[i])) <= d(RowOf(c[j]))
                              /\ d(RowOf(c[i])) = d(RowOf(c[j]))
                                   => RowOf(c[i]) < RowOf(c[j])
                /\ \A u \in CoreRows \ sel : \A r \in sel :
                     /\ d(r) <= d(u)
                     /\ d(r) = d(u) => r < u

\* a TAZ with fewer candidates than scc_id = 0 nodes, where an unselected
\* node is exactly as far as a selected one
C6_Witness ==
    /\ pc = "cand"
    /\ \E t \in DOMAIN taz_with_candidates :
         LET taz == taz_with_candidates[t]
             sel == { RowOf(taz.candidates[i]) : i \in DOMAIN taz.candidates }
         IN  /\ Len(taz.candidates) = num_candidates
             /\ \E u \in CoreRows \ sel : \E r \in sel :
                  distance(meso_nodes[r], taz) = distance(meso_nodes[u], taz)

\* C7: when no meso node has scc_id = 0, find_nearest_scc_nodes returns
\* every TAZ without a candidate and the stages after it do not fail.
C7_EmptyCoreDoesNotFail ==
    (pc \in { "cand", "mapped", "prepared", "merged", "failed" } /\ CoreRows = {}) =>
        /\ \A t \in DOMAIN taz_with_candidates :
             taz_with_candidates[t].candidates = << >>
        /\ err = "none"

\* TAZ of the first row of taz_micro_map that names the shifted micro node n
FirstClaimant(n) ==
    taz_micro_map[SetMin({ i \in DOMAIN taz_micro_map :
        taz_micro_map[i].micro_node_id + shifts.node_shift_micro = n })].taz_id

ClaimedMicroNodes ==
    { taz_micro_map[i].micro_node_id + shifts.node_shift_micro :
        i \in DOMAIN taz_micro_map }

\* C8: after generate_micro_connectors each shifted micro node id is the
\* to_node_id of at most one forward connector and the from_node_id of at
\* most one reverse connector, the TAZ of the pair is the TAZ of the first
\* row of taz_micro_map naming the node, and the later rows naming it emit
\* nothing and consume no link id.
C8_FirstClaimWins ==
    pc = "prepared" =>
        LET mc == micro_connector_links
            fwd == { i \in DOMAIN mc : i % 2 = 1 }
            rev == { i \in DOMAIN mc : i % 2 = 0 }
        IN  /\ \A n \in ClaimedMicroNodes :
                 /\ Cardinality({ i \in fwd : mc[i].to_node_id = n }) = 1
                 /\ Cardinality({ i \in rev : mc[i].from_node_id = n }) = 1
                 /\ \A i \in fwd : mc[i].to_node_id = n
                        => mc[i].from_node_id = FirstClaimant(n)
                 /\ \A i \in rev : mc[i].from_node_id = n
                        => mc[i].to_node_id = FirstClaimant(n)
            /\ Len(mc) = 2 * Cardinality(ClaimedMicroNodes)
            /\ \A i \in DOMAIN mc : mc[i].link_id = i

\* two TAZs claim the same micro node; the second claim comes later
C8_Witness ==
    /\ pc = "prepared"
    /\ \E i, j \in DOMAIN taz_micro_map :
         /\ i < j
         /\ taz_micro_map[i].micro_node_id = taz_micro_map[j].micro_node_id
         /\ taz_micro_map[i].taz_id # taz_micro_map[j].taz_id
    /\ Cardinality(ClaimedMicroNodes) >= 2

\* rows 2i-1, 2i of a connector table are a forward/reverse pair
PairedConnectors(conn, node_ids) ==
    /\ Len(conn) % 2 = 0
    /\ \A i \in DOMAIN conn : conn[i].link_id = i
    /\ \A i \in DOMAIN conn :
         i % 2 = 1 =>
            /\ conn[i].from_node_id \in Range(Col(taz_df, "TAZ_clean"))
            /\ conn[i].to_node_id \in node_ids
            /\ conn[i + 1].from_node_id = conn[i].to_node_id
            /\ conn[i + 1].to_node_id = conn[i].from_node_id
            /\ conn[i + 1].length = conn[i].length

\* C9: both connector generators emit forward/reverse pairs: local link ids
\* 1, 2, 3, ... without gaps, row 2i-1 from a TAZ id to a shifted network
\* node id, row 2i with the same endpoints swapped and the same length;
\* generate_meso_connectors emits exactly one pair per TAZ.
C9_ConnectorPairs ==
    pc = "prepared" =>
        /\ PairedConnectors(meso_connector_links, Ids(updated_meso_nodes))
        /\ PairedConnectors(micro_connector_links, Ids(updated_micro_nodes))
        /\ Len(meso_connector_links) = 2 * Len(taz_df)

\* both generators have emitted pairs, the micro one more than one
C9_Witness ==
    /\ pc = "prepared"
    /\ Len(meso_connector_links) >= 4
    /\ Len(micro_connector_links) >= 4

SameLinks(t, u) ==
    /\ Len(t) = Len(u)
    /\ \A i \in DOMAIN t :
         /\ t[i].link_id = u[i].link_id
         /\ t[i].from_node_id = u[i].from_node_id
         /\ t[i].to_node_id = u[i].to_node_id

\* C10: no stage changes a table it received: at every step of main() up
\* to and including the return of merge_network_layers, meso_links and
\* micro_links hold the ids and endpoints that were loaded, micro_nodes is
\* as loaded, and the micro connectors keep the ids that
\* generate_micro_connectors gave them.
C10_InputTablesUnchanged ==
    pc \in { "loaded", "scc", "cand", "mapped", "prepared", "merged" } =>
        /\ SameLinks(meso_links, csv.meso_links)
        /\ SameLinks(micro_links, csv.micro_links)
        /\ micro_nodes = csv.micro_nodes
        /\ Col(meso_nodes, "node_id") = Col(csv.meso_nodes, "node_id")
        /\ \A i \in DOMAIN micro_connector_links :
             micro_connector_links[i].link_id = i

====
